---------------------------- MODULE Spec2Model ----------------------------
(***************************************************************************)
(* A model of the full-text index: the tokenizer (src/src/tokenizer.rs),   *)
(* the document store (src/src/document.rs), the inverted index            *)
(* (src/src/index.rs) and the query engine (src/src/search.rs).            *)
(*                                                                         *)
(* A string is a sequence of characters, a character is a one-character    *)
(* TLA+ string.  Rust measures str::len, str::find and slices in UTF-8     *)
(* bytes, so every character carries its encoded length (Utf8Len).         *)
(***************************************************************************)
EXTENDS Integers, Sequences, FiniteSets, TLC

(***************************************************************************)
(* Characters                                                              *)
(***************************************************************************)
LowerAlphabet ==
    <<"a","b","c","d","e","f","g","h","i","j","k","l","m",
      "n","o","p","q","r","s","t","u","v","w","x","y","z">>

UpperAlphabet ==
    <<"A","B","C","D","E","F","G","H","I","J","K","L","M",
      "N","O","P","Q","R","S","T","U","V","W","X","Y","Z">>

Digits == {"0","1","2","3","4","5","6","7","8","9"}

Range(s) == {s[i] : i \in DOMAIN s}

\* Letters outside ASCII that the model knows: U+00E9, U+00C9, U+00DF.
NonAsciiLetters == {"é", "É", "ß"}

AlphanumericChars ==
    Range(LowerAlphabet) \cup Range(UpperAlphabet) \cup Digits \cup NonAsciiLetters

\* char::is_alphanumeric
is_alphanumeric(ch) == ch \in AlphanumericChars

\* char::len_utf8: the letters of Latin-1 Supplement take two bytes.
Utf8Len(ch) == IF ch \in NonAsciiLetters THEN 2 ELSE 1

\* The characters whose lower case is another character.
LowercaseMap ==
    [ch \in Range(UpperAlphabet) \cup {"É"} |->
        IF ch = "É" THEN <<"é">>
        ELSE <<LowerAlphabet[CHOOSE i \in DOMAIN UpperAlphabet :
                                UpperAlphabet[i] = ch]>>]

\* The characters whose upper case is another string; U+00DF has the
\* two-letter upper case SS.
UppercaseMap ==
    [ch \in Range(LowerAlphabet) \cup {"é", "ß"} |->
        IF ch = "é" THEN <<"É">>
        ELSE IF ch = "ß" THEN <<"S","S">>
        ELSE <<UpperAlphabet[CHOOSE i \in DOMAIN LowerAlphabet :
                                LowerAlphabet[i] = ch]>>]

\* char::to_lowercase, as a string
char_to_lowercase(ch) ==
    IF ch \in DOMAIN LowercaseMap THEN LowercaseMap[ch] ELSE <<ch>>

\* char::to_uppercase, as a string
char_to_uppercase(ch) ==
    IF ch \in DOMAIN UppercaseMap THEN UppercaseMap[ch] ELSE <<ch>>

RECURSIVE LowercaseBetween(_, _, _)
\* The lower case of the characters lo..hi of s, one half after the other.
LowercaseBetween(s, lo, hi) ==
    IF lo > hi THEN <<>>
    ELSE IF lo = hi THEN char_to_lowercase(s[lo])
    ELSE LowercaseBetween(s, lo, (lo + hi) \div 2)
            \o LowercaseBetween(s, (lo + hi) \div 2 + 1, hi)

\* str::to_lowercase
to_lowercase(s) ==
    IF \A i \in DOMAIN s : s[i] \notin DOMAIN LowercaseMap THEN s
    ELSE LowercaseBetween(s, 1, Len(s))

RECURSIVE UppercaseBetween(_, _, _)
\* The upper case of the characters lo..hi of s, one half after the other.
UppercaseBetween(s, lo, hi) ==
    IF lo > hi THEN <<>>
    ELSE IF lo = hi THEN char_to_uppercase(s[lo])
    ELSE UppercaseBetween(s, lo, (lo + hi) \div 2)
            \o UppercaseBetween(s, (lo + hi) \div 2 + 1, hi)

\* str::to_uppercase
to_uppercase(s) ==
    IF \A i \in DOMAIN s : s[i] \notin DOMAIN UppercaseMap THEN s
    ELSE UppercaseBetween(s, 1, Len(s))

\* The bytes of the first k characters of s: one for every character and
\* one more for every two-byte letter.
Utf8LenUpTo(s, k) == k + Cardinality({i \in 1..k : Utf8Len(s[i]) = 2})

\* str::len: the length in bytes
str_len(s) == Utf8LenUpTo(s, Len(s))

\* str::starts_with
starts_with(s, p) == Len(p) <= Len(s) /\ SubSeq(s, 1, Len(p)) = p

\* str::ends_with
ends_with(s, p) == Len(p) <= Len(s) /\ SubSeq(s, Len(s) - Len(p) + 1, Len(s)) = p

\* p occurs in s at character index i (from 0).
OccursAt(s, p, i) == \A j \in 1..Len(p) : s[i + j] = p[j]

\* str::contains
str_contains(s, p) == \E i \in 0..(Len(s) - Len(p)) : OccursAt(s, p, i)

Min(S) == CHOOSE x \in S : \A y \in S : x <= y

RECURSIVE FindBetween(_, _, _, _)
\* The scan of str::find over the character indices lo..hi: the first index
\* at which p occurs, as a set of at most one element.  The left half is
\* scanned before the right half.
FindBetween(s, p, lo, hi) ==
    IF lo > hi THEN {}
    ELSE IF lo = hi THEN (IF OccursAt(s, p, lo) THEN {lo} ELSE {})
    ELSE LET left == FindBetween(s, p, lo, (lo + hi) \div 2) IN
         IF left # {} THEN left
         ELSE FindBetween(s, p, (lo + hi) \div 2 + 1, hi)

\* str::find: the byte offset of the first occurrence, as Option (a set of
\* at most one element).
str_find(s, p) ==
    {Utf8LenUpTo(s, i) : i \in FindBetween(s, p, 0, Len(s) - Len(p))}

(***************************************************************************)
(* Tokenizer (src/src/tokenizer.rs)                                        *)
(***************************************************************************)
common_stop_words == {
    <<"a">>, <<"a","n">>, <<"a","n","d">>, <<"a","r","e">>, <<"a","s">>,
    <<"a","t">>, <<"b","e">>, <<"b","e","e","n">>, <<"b","y">>,
    <<"f","o","r">>, <<"f","r","o","m">>, <<"h","a","s">>, <<"h","e">>,
    <<"i","n">>, <<"i","s">>, <<"i","t">>, <<"i","t","s">>, <<"o","f">>,
    <<"o","n">>, <<"t","h","a","t">>, <<"t","h","e">>, <<"t","o">>,
    <<"w","a","s">>, <<"w","i","l","l">>, <<"w","i","t","h">>,
    <<"t","h","e">>, <<"t","h","i","s">>, <<"t","h","e","s","e">>,
    <<"t","h","o","s","e">>, <<"i">>, <<"y","o","u">>, <<"w","e">>,
    <<"t","h","e","y">>, <<"t","h","e","m">>, <<"t","h","e","i","r">>,
    <<"w","h","a","t">>, <<"w","h","i","c","h">>, <<"w","h","o">>,
    <<"w","h","e","n">>, <<"w","h","e","r","e">>, <<"w","h","y">>,
    <<"h","o","w">>, <<"a","l","l">>, <<"w","o","u","l","d">>,
    <<"t","h","e","r","e">>, <<"b","e","e","n">> }

DefaultMinTokenLength == 2

DefaultMaxTokenLength == 50

\* Tokenizer::new
TokenizerNew ==
    [stop_words |-> common_stop_words,
     min_token_length |-> DefaultMinTokenLength,
     max_token_length |-> DefaultMaxTokenLength]

\* Tokenizer::create_token with an end offset that is the start offset plus
\* the byte length of the word
create_token_end_by_length(tk, text, position, start, end) ==
    LET normalized == to_lowercase(text) IN
    IF str_len(normalized) < tk.min_token_length
         \/ str_len(normalized) > tk.max_token_length
    THEN <<>>
    ELSE IF normalized \in tk.stop_words
    THEN <<>>
    ELSE << [text |-> normalized, position |-> position,
             start_offset |-> start, end_offset |-> start + str_len(normalized)] >>

\* Tokenizer::create_token: Option<Token> as a sequence of at most one Token.
\* The length test uses String::len, the byte length of the lowercased word.
create_token(tk, text, position, start, end) ==
    LET normalized == to_lowercase(text) IN
    IF str_len(normalized) < tk.min_token_length
         \/ str_len(normalized) > tk.max_token_length
    THEN <<>>
    ELSE IF normalized \in tk.stop_words
    THEN <<>>
    ELSE << [text |-> normalized, position |-> position,
             start_offset |-> start, end_offset |-> end] >>

RECURSIVE TokenizeFromCountingEveryWord(_, _, _, _, _, _, _)
\* The loop of Tokenizer::tokenize with a position that also counts the
\* words that were rejected
TokenizeFromCountingEveryWord(tk, text_chars, i, tokens, position, current_word, word_start) ==
    IF i >= Len(text_chars)
    THEN IF current_word # <<>>
         THEN tokens \o create_token(tk, current_word, position,
                                     word_start, Len(text_chars))
         ELSE tokens
    ELSE LET ch == text_chars[i + 1] IN
         IF is_alphanumeric(ch)
         THEN TokenizeFromCountingEveryWord(
                  tk, text_chars, i + 1, tokens, position,
                  Append(current_word, ch),
                  IF current_word = <<>> THEN i ELSE word_start)
         ELSE IF current_word # <<>>
         THEN TokenizeFromCountingEveryWord(
                  tk, text_chars, i + 1,
                  tokens \o create_token(tk, current_word, position, word_start, i),
                  position + 1, <<>>, word_start)
         ELSE TokenizeFromCountingEveryWord(
                  tk, text_chars, i + 1, tokens, position,
                  current_word, word_start)

RECURSIVE TokenizeFrom(_, _, _, _, _, _, _)
\* The loop of Tokenizer::tokenize at character index i (from 0), then the
\* flush of the word that ends with the text.
TokenizeFrom(tk, text_chars, i, tokens, position, current_word, word_start) ==
    IF i >= Len(text_chars)
    THEN IF current_word # <<>>
         THEN tokens \o create_token(tk, current_word, position,
                                     word_start, Len(text_chars))
         ELSE tokens
    ELSE LET ch == text_chars[i + 1] IN
         IF is_alphanumeric(ch)
         THEN TokenizeFrom(tk, text_chars, i + 1, tokens, position,
                           Append(current_word, ch),
                           IF current_word = <<>> THEN i ELSE word_start)
         ELSE IF current_word # <<>>
         THEN LET token == create_token(tk, current_word, position,
                                        word_start, i) IN
              TokenizeFrom(tk, text_chars, i + 1, tokens \o token,
                           IF token # <<>> THEN position + 1 ELSE position,
                           <<>>, word_start)
         ELSE TokenizeFrom(tk, text_chars, i + 1, tokens, position,
                           current_word, word_start)

\* Tokenizer::tokenize
tokenize(tk, text) == TokenizeFrom(tk, text, 0, <<>>, 0, <<>>, 0)

\* Tokenizer::add_stop_word that inserts the word as it was given
add_stop_word_as_given(tk, word) ==
    [tk EXCEPT !.stop_words = @ \cup {word}]

\* Tokenizer::add_stop_word
add_stop_word(tk, word) ==
    [tk EXCEPT !.stop_words = @ \cup {to_lowercase(word)}]

\* Tokenizer::remove_stop_word
remove_stop_word(tk, word) ==
    [tk EXCEPT !.stop_words = @ \ {to_lowercase(word)}]

\* Tokenizer::set_min_token_length
set_min_token_length(tk, length) == [tk EXCEPT !.min_token_length = length]

\* Tokenizer::set_max_token_length
set_max_token_length(tk, length) == [tk EXCEPT !.max_token_length = length]

\* &word[..word.len() - n] for a word that ends with n one-byte characters
strip_suffix(word, n) == SubSeq(word, 1, Len(word) - n)

\* SimpleStemmer::stem.  word.len() is the length in bytes.
stem(w) ==
    LET word == to_lowercase(w) IN
    IF ends_with(word, <<"i","n","g">>) /\ str_len(word) > 5
    THEN strip_suffix(word, 3)
    ELSE IF ends_with(word, <<"e","d">>) /\ str_len(word) > 4
    THEN strip_suffix(word, 2)
    ELSE IF ends_with(word, <<"l","y">>) /\ str_len(word) > 4
    THEN strip_suffix(word, 2)
    ELSE IF ends_with(word, <<"e","s">>) /\ str_len(word) > 4
    THEN strip_suffix(word, 2)
    ELSE IF ends_with(word, <<"s">>) /\ str_len(word) > 3
              /\ ~ends_with(word, <<"s","s">>)
    THEN strip_suffix(word, 1)
    ELSE word

(***************************************************************************)
(* Document store (src/src/document.rs) and inverted index                 *)
(* (src/src/index.rs)                                                      *)
(***************************************************************************)
VARIABLES
    index,          \* InvertedIndex.index: term -> PostingList
    documents,      \* DocumentStore.documents: id -> Document
    next_id,        \* DocumentStore.next_id
    total_terms,    \* InvertedIndex.total_terms
    query,          \* the query of the last call, NoQuery after add_document
    results,        \* the Vec<SearchResult> the last query returned
    panicked,       \* TRUE when the last query panicked instead of returning
    calls,          \* the number of add_document calls the caller has made
    returned_id,    \* the DocumentId the last add_document call returned
    tokenizer,      \* a Tokenizer the caller owns: stop words and length bounds
    config_calls,   \* the configuration calls the caller made on tokenizer
    input_text,     \* the text of the caller's last tokenize call
    returned_tokens,\* the Vec<Token> that call returned
    stem_input,     \* the word of the caller's last SimpleStemmer::stem call
    stem_output,    \* the String that call returned
    snippet_content,\* the content of the last generate_snippet call
    snippet_query,  \* the query text of that call
    snippet_outcome \* what that call came to: a panic, or the String returned

\* The inverted index with its document store, and what its caller holds.
index_vars ==
    <<index, documents, next_id, total_terms, query, results, panicked,
      calls, returned_id>>

\* The caller's own tokenizer, and what its caller holds.
tokenizer_vars == <<tokenizer, config_calls, input_text, returned_tokens>>

\* What the caller of the stemmer holds.
stemmer_vars == <<stem_input, stem_output>>

\* What the caller of generate_snippet holds.
snippet_vars == <<snippet_content, snippet_query, snippet_outcome>>

vars == <<index_vars, tokenizer_vars, stemmer_vars, snippet_vars>>

\* No add_document call has returned yet.
NoId == -1

\* Document::new (the metadata map stays empty and is never read)
DocumentNew(id, title, content) ==
    [id |-> id, title |-> title, content |-> content]

\* Document::full_text
full_text(doc) == doc.title \o <<" ">> \o doc.content

\* DocumentStore::get_document, as Option
get_document(id) == IF id \in DOMAIN documents THEN {documents[id]} ELSE {}

\* DocumentStore::total_documents
total_documents == Cardinality(DOMAIN documents)

\* InvertedIndex::total_unique_terms
total_unique_terms == Cardinality(DOMAIN index)

\* PostingList::new with the count started at one
PostingListNewCountingFromOne(term) ==
    [term |-> term, document_frequency |-> 1, postings |-> <<>>]

\* PostingList::new
PostingListNew(term) ==
    [term |-> term, document_frequency |-> 0, postings |-> <<>>]

\* PostingList::add_posting with a term frequency that counts the posting
\* instead of its positions
add_posting_frequency_one(posting_list, doc_id, positions) ==
    [posting_list EXCEPT
        !.postings = Append(@, [doc_id |-> doc_id,
                                term_frequency |-> 1,
                                positions |-> positions]),
        !.document_frequency = @ + 1]

\* PostingList::add_posting that puts the new posting before the others
add_posting_in_front(posting_list, doc_id, positions) ==
    [posting_list EXCEPT
        !.postings = << [doc_id |-> doc_id,
                         term_frequency |-> Len(positions),
                         positions |-> positions] >> \o @,
        !.document_frequency = @ + 1]

\* PostingList::add_posting
add_posting(posting_list, doc_id, positions) ==
    [posting_list EXCEPT
        !.postings = Append(@, [doc_id |-> doc_id,
                                term_frequency |-> Len(positions),
                                positions |-> positions]),
        !.document_frequency = @ + 1]

\* The positions of one term among the tokens, in token order.
RECURSIVE PositionsOf(_, _, _)
PositionsOf(tokens, term, field) ==
    IF tokens = <<>> THEN <<>>
    ELSE (IF Head(tokens).text = term
          THEN << [position |-> Head(tokens).position, field |-> field] >>
          ELSE <<>>) \o PositionsOf(Tail(tokens), term, field)

\* InvertedIndex::extract_terms: term -> Vec<TermPosition>
extract_terms(text, field) ==
    LET tokens == tokenize(TokenizerNew, text) IN
    [term \in {tokens[i].text : i \in DOMAIN tokens}
        |-> PositionsOf(tokens, term, field)]

\* The merge of add_document with the content positions put before the
\* title positions.
MergeTermPositionsContentFirst(title_terms, content_terms) ==
    [term \in DOMAIN title_terms \cup DOMAIN content_terms |->
        (IF term \in DOMAIN content_terms THEN content_terms[term] ELSE <<>>)
        \o (IF term \in DOMAIN title_terms THEN title_terms[term] ELSE <<>>)]

\* The merge of add_document that keeps the key of a content term and
\* drops its positions.
MergeTermPositionsOfTitle(title_terms, content_terms) ==
    [term \in DOMAIN title_terms \cup DOMAIN content_terms |->
        IF term \in DOMAIN title_terms THEN title_terms[term] ELSE <<>>]

\* The map term_positions that add_document merges from the two fields.
MergeTermPositions(title_terms, content_terms) ==
    [term \in DOMAIN title_terms \cup DOMAIN content_terms |->
        (IF term \in DOMAIN title_terms THEN title_terms[term] ELSE <<>>)
        \o (IF term \in DOMAIN content_terms THEN content_terms[term] ELSE <<>>)]

\* The posting loop of add_document run once for the title terms and once
\* for the content terms instead of once for the merged map.
IndexWithDocumentPerField(idx, doc_id, term_positions) ==
    [term \in DOMAIN idx \cup DOMAIN term_positions |->
        IF term \in DOMAIN term_positions
        THEN LET old == IF term \in DOMAIN idx THEN idx[term]
                                              ELSE PostingListNew(term)
                 in_title == SelectSeq(term_positions[term],
                                       LAMBDA tp : tp.field = "Title")
                 in_content == SelectSeq(term_positions[term],
                                         LAMBDA tp : tp.field = "Content")
             IN IF in_title # <<>> /\ in_content # <<>>
                THEN add_posting(add_posting(old, doc_id, in_title),
                                 doc_id, in_content)
                ELSE add_posting(old, doc_id, term_positions[term])
        ELSE idx[term]]

\* The posting loop of add_document with a fresh posting list for every
\* term of the document, also for a term the index already has.
IndexWithDocumentInFreshLists(idx, doc_id, term_positions) ==
    [term \in DOMAIN idx \cup DOMAIN term_positions |->
        IF term \in DOMAIN term_positions
        THEN add_posting(PostingListNew(term), doc_id, term_positions[term])
        ELSE idx[term]]

\* The term map after the posting loop of add_document.  Every term of the
\* document gets one posting, so the iteration order of the map does not
\* show in the result.
IndexWithDocument(idx, doc_id, term_positions) ==
    [term \in DOMAIN idx \cup DOMAIN term_positions |->
        IF term \in DOMAIN term_positions
        THEN add_posting(IF term \in DOMAIN idx THEN idx[term]
                                                ELSE PostingListNew(term),
                         doc_id, term_positions[term])
        ELSE idx[term]]

\* InvertedIndex::get_posting_list, as Option
get_posting_list(term) ==
    IF to_lowercase(term) \in DOMAIN index THEN {index[to_lowercase(term)]} ELSE {}

\* InvertedIndex::get_document_frequency
get_document_frequency(term) ==
    IF get_posting_list(term) = {} THEN 0
    ELSE (CHOOSE p \in get_posting_list(term) : TRUE).document_frequency

\* InvertedIndex::get_term_frequency that takes the first posting of the
\* list, whatever its document
get_term_frequency_of_first_posting(term, doc_id) ==
    IF get_posting_list(term) = {} THEN 0
    ELSE LET posting_list == CHOOSE p \in get_posting_list(term) : TRUE
         IN IF posting_list.postings = <<>> THEN 0
            ELSE posting_list.postings[1].term_frequency

\* InvertedIndex::get_term_frequency
get_term_frequency(term, doc_id) ==
    IF get_posting_list(term) = {} THEN 0
    ELSE LET posting_list == CHOOSE p \in get_posting_list(term) : TRUE
             found == {i \in DOMAIN posting_list.postings :
                          posting_list.postings[i].doc_id = doc_id}
         IN IF found = {} THEN 0
            ELSE posting_list.postings[Min(found)].term_frequency

\* InvertedIndex::search: the raw lookup
index_search(q) ==
    IF to_lowercase(q) \in DOMAIN index
    THEN [i \in DOMAIN index[to_lowercase(q)].postings |->
             index[to_lowercase(q)].postings[i].doc_id]
    ELSE <<>>

(***************************************************************************)
(* Query engine (src/src/search.rs)                                        *)
(***************************************************************************)
\* log10 of the integers the scores of the model need, times LogScale.
LogScale == 10000

Log10Table ==
    <<0, 3010, 4771, 6021, 6990, 7782, 8451, 9031, 9542, 10000, 10414, 10792>>

RECURSIVE GCD(_, _)
GCD(a, b) == IF b = 0 THEN a ELSE GCD(b, a % b)

\* (n as f64).log10(), times LogScale
Log10OfInt(n) == Log10Table[n]

\* ((n as f64) / (d as f64)).log10(), times LogScale.  The quotient of two
\* floats depends on the value of the fraction only, so the logarithm is
\* taken of the fraction in lowest terms.
Log10OfRatio(n, d) ==
    Log10Table[n \div GCD(n, d)] - Log10Table[d \div GCD(n, d)]

\* calculate_tfidf with the smoothed idf log10(N / df) + 1
calculate_tfidf_smoothed(term_frequency, document_frequency, total_docs) ==
    LET tf == Log10OfInt(term_frequency) + LogScale
        idf == Log10OfRatio(total_docs, document_frequency) + LogScale
    IN tf * idf

\* Searcher::calculate_tfidf, times LogScale * LogScale
calculate_tfidf(term_frequency, document_frequency, total_docs) ==
    LET tf == Log10OfInt(term_frequency) + LogScale
        idf == Log10OfRatio(total_docs, document_frequency)
    IN tf * idf

\* The score 1.0 of a phrase result, on the scale of calculate_tfidf.
PhraseScore == LogScale * LogScale

SnippetContext == 50

SnippetFallbackChars == 100

Ellipsis == <<".", ".", ".">>

RECURSIVE CharIndexAt(_, _, _, _)
\* str::is_char_boundary, with the index of the boundary: the number k in
\* lo..hi of characters of s whose bytes end at byte offset b, or -1 when b
\* lies inside a character or behind the end of s.  The bytes of the first k
\* characters grow with k, so the search halves lo..hi.
CharIndexAt(s, b, lo, hi) ==
    IF lo > hi THEN -1
    ELSE LET k == (lo + hi) \div 2
             offset == Utf8LenUpTo(s, k)
         IN IF offset = b THEN k
            ELSE IF offset < b THEN CharIndexAt(s, b, k + 1, hi)
            ELSE CharIndexAt(s, b, lo, k - 1)

\* &s[start..end], a slice by byte offsets: it panics unless
\* start <= end <= s.len() and both offsets are character boundaries.
str_slice(s, start, end) ==
    LET from == CharIndexAt(s, start, 0, Len(s))
        to == CharIndexAt(s, end, 0, Len(s))
    IN IF start <= end /\ from # -1 /\ to # -1
       THEN [panic |-> FALSE, text |-> SubSeq(s, from + 1, to)]
       ELSE [panic |-> TRUE, text |-> <<>>]

Minimum(a, b) == IF a < b THEN a ELSE b

\* usize::saturating_sub
saturating_sub(a, b) == IF a > b THEN a - b ELSE 0

\* generate_snippet with a window that ends where the match begins
generate_snippet_before_match(content, q) ==
    LET found == str_find(to_lowercase(content), to_lowercase(q))
    IN IF found # {}
       THEN LET pos == CHOOSE x \in found : TRUE
                start == saturating_sub(pos, SnippetContext)
                slice == str_slice(content, start, pos)
            IN [panic |-> slice.panic,
                text |-> (IF start > 0 THEN Ellipsis ELSE <<>>)
                         \o slice.text
                         \o (IF pos < str_len(content) THEN Ellipsis ELSE <<>>)]
       ELSE [panic |-> FALSE,
             text |-> SubSeq(content, 1, Minimum(SnippetFallbackChars, Len(content)))
                      \o Ellipsis]

\* Searcher::generate_snippet
generate_snippet(content, q) ==
    LET lower_content == to_lowercase(content)
        lower_query == to_lowercase(q)
        found == str_find(lower_content, lower_query)
    IN IF found # {}
       THEN LET pos == CHOOSE x \in found : TRUE
                content_len == str_len(content)
                start == saturating_sub(pos, SnippetContext)
                end == Minimum(pos + str_len(q) + SnippetContext, content_len)
                slice == str_slice(content, start, end)
            IN [panic |-> slice.panic,
                text |-> (IF start > 0 THEN Ellipsis ELSE <<>>)
                         \o slice.text
                         \o (IF end < content_len THEN Ellipsis ELSE <<>>)]
       ELSE [panic |-> FALSE,
             text |-> SubSeq(content, 1, Minimum(SnippetFallbackChars, Len(content)))
                      \o Ellipsis]

RECURSIVE join(_, _)
\* [String]::join
join(terms, sep) ==
    IF terms = <<>> THEN <<>>
    ELSE IF Len(terms) = 1 THEN terms[1]
    ELSE terms[1] \o sep \o join(Tail(terms), sep)

\* Searcher::contains_phrase
contains_phrase(text, terms) ==
    str_contains(to_lowercase(text), to_lowercase(join(terms, <<" ">>)))

\* One step of the stable sort: r goes behind every element whose score is
\* not smaller than its own.
RECURSIVE InsertByScore(_, _)
InsertByScore(sorted, r) ==
    IF sorted = <<>> THEN <<r>>
    ELSE IF Head(sorted).score >= r.score
    THEN <<Head(sorted)>> \o InsertByScore(Tail(sorted), r)
    ELSE <<r>> \o sorted

RECURSIVE SortFrom(_, _)
SortFrom(sorted, rest) ==
    IF rest = <<>> THEN sorted
    ELSE SortFrom(InsertByScore(sorted, Head(rest)), Tail(rest))

RECURSIVE InsertByScoreAscending(_, _)
InsertByScoreAscending(sorted, r) ==
    IF sorted = <<>> THEN <<r>>
    ELSE IF Head(sorted).score <= r.score
    THEN <<Head(sorted)>> \o InsertByScoreAscending(Tail(sorted), r)
    ELSE <<r>> \o sorted

RECURSIVE SortAscendingFrom(_, _)
SortAscendingFrom(sorted, rest) ==
    IF rest = <<>> THEN sorted
    ELSE SortAscendingFrom(InsertByScoreAscending(sorted, Head(rest)), Tail(rest))

\* The sort with the comparison the other way round:
\* results.sort_by(|a, b| a.score.partial_cmp(&b.score).unwrap())
sort_by_score_ascending(list) == SortAscendingFrom(<<>>, list)

\* results.sort_by(|a, b| b.score.partial_cmp(&a.score).unwrap()): a stable
\* sort, descending by score.  The scores are finite, so unwrap never fails.
sort_by_score(list) == SortFrom(<<>>, list)

RECURSIVE dedup_by_key(_)
\* Vec::dedup_by_key(|r| r.doc_id): of consecutive elements with the same
\* doc_id only the first is kept.
dedup_by_key(list) ==
    IF Len(list) <= 1 THEN list
    ELSE IF list[1].doc_id = list[2].doc_id
    THEN dedup_by_key(<<list[1]>> \o SubSeq(list, 3, Len(list)))
    ELSE <<list[1]>> \o dedup_by_key(Tail(list))

RECURSIVE IterationOrders(_)
\* The orders in which a HashMap or HashSet may hand out its elements.
IterationOrders(S) ==
    IF S = {} THEN {<<>>}
    ELSE UNION {{<<x>> \o p : p \in IterationOrders(S \ {x})} : x \in S}

\* What a query call comes to: a returned list, or a panic.
Returned(list) == [panic |-> FALSE, results |-> list]

Panic == [panic |-> TRUE, results |-> <<>>]

DocIds(list) == {list[i].doc_id : i \in DOMAIN list}

RECURSIVE SearchResults(_)
\* The SearchResult values a loop pushed, when no snippet panicked.
SearchResults(collected) ==
    IF collected = <<>> THEN <<>>
    ELSE <<[doc_id |-> Head(collected).doc_id, score |-> Head(collected).score,
            title |-> Head(collected).title, snippet |-> Head(collected).snippet]>>
         \o SearchResults(Tail(collected))

\* Searcher::search_term.  The postings are a Vec, so the order is fixed.
search_term(term) ==
    LET normalized_term == to_lowercase(term)
        found == get_posting_list(normalized_term)
    IN IF found = {} THEN Returned(<<>>)
       ELSE LET posting_list == CHOOSE p \in found : TRUE
                postings == posting_list.postings
                result(posting, doc) ==
                    LET snippet == generate_snippet(doc.content, normalized_term)
                    IN [panic |-> snippet.panic,
                        doc_id |-> posting.doc_id,
                        score |-> calculate_tfidf(posting.term_frequency,
                                                  posting_list.document_frequency,
                                                  total_documents),
                        title |-> doc.title,
                        snippet |-> snippet.text]
                RECURSIVE Collect(_)
                Collect(i) ==
                    IF i > Len(postings) THEN <<>>
                    ELSE (IF get_document(postings[i].doc_id) # {}
                          THEN <<result(postings[i], documents[postings[i].doc_id])>>
                          ELSE <<>>) \o Collect(i + 1)
                collected == Collect(1)
            IN IF \E i \in DOMAIN collected : collected[i].panic THEN Panic
               ELSE Returned(sort_by_score(SearchResults(collected)))

\* Searcher::search_phrase.  The candidates are a HashSet: the results come
\* in one of its iteration orders and are not sorted.
search_phrase(terms) ==
    IF terms = <<>> THEN {Returned(<<>>)}
    ELSE LET PostingDocs(term) ==
                 IF get_posting_list(term) = {} THEN {}
                 ELSE LET pl == CHOOSE p \in get_posting_list(term) : TRUE
                      IN {pl.postings[i].doc_id : i \in DOMAIN pl.postings}
             RECURSIVE Candidates(_)
             Candidates(k) ==
                 IF k = 1 THEN PostingDocs(to_lowercase(terms[1]))
                 ELSE {d \in PostingDocs(to_lowercase(terms[k])) :
                          d \in Candidates(k - 1)}
             matching == {d \in Candidates(Len(terms)) :
                             /\ get_document(d) # {}
                             /\ contains_phrase(full_text(documents[d]), terms)}
             result(d) ==
                 LET snippet == generate_snippet(documents[d].content,
                                                 join(terms, <<" ">>))
                 IN [panic |-> snippet.panic, doc_id |-> d, score |-> PhraseScore,
                     title |-> documents[d].title, snippet |-> snippet.text]
             RECURSIVE Collect(_)
             Collect(order) ==
                 IF order = <<>> THEN <<>>
                 ELSE <<result(Head(order))>> \o Collect(Tail(order))
             pushed == {Collect(order) : order \in IterationOrders(matching)}
         IN {IF \E i \in DOMAIN collected : collected[i].panic THEN Panic
             ELSE Returned(SearchResults(collected)) : collected \in pushed}

\* str::trim_end_matches('*')
RECURSIVE trim_end_matches(_, _)
trim_end_matches(s, ch) ==
    IF s # <<>> /\ s[Len(s)] = ch
    THEN trim_end_matches(SubSeq(s, 1, Len(s) - 1), ch) ELSE s

\* str::trim_start_matches('*')
RECURSIVE trim_start_matches(_, _)
trim_start_matches(s, ch) ==
    IF s # <<>> /\ s[1] = ch THEN trim_start_matches(Tail(s), ch) ELSE s

\* str::replace('*', "")
RECURSIVE remove_char(_, _)
remove_char(s, ch) ==
    IF s = <<>> THEN <<>>
    ELSE (IF Head(s) = ch THEN <<>> ELSE <<Head(s)>>) \o remove_char(Tail(s), ch)

\* The test of search_wildcard on one key of the term map.
wildcard_matches(term, pattern) ==
    LET pattern_lower == to_lowercase(pattern)
        prefix == trim_end_matches(pattern_lower, "*")
        suffix == trim_start_matches(pattern_lower, "*")
        is_prefix == ends_with(pattern_lower, <<"*">>)
                        /\ ~starts_with(pattern_lower, <<"*">>)
        is_suffix == starts_with(pattern_lower, <<"*">>)
                        /\ ~ends_with(pattern_lower, <<"*">>)
    IN IF is_prefix THEN starts_with(term, prefix)
       ELSE IF is_suffix THEN ends_with(term, suffix)
       ELSE str_contains(term, remove_char(pattern_lower, "*"))

RECURSIVE Flatten(_)
Flatten(lists) ==
    IF lists = <<>> THEN <<>> ELSE Head(lists) \o Flatten(Tail(lists))

\* Searcher::search_wildcard.  The keys of the term map come in one of the
\* iteration orders of the HashMap; the keys that do not match add nothing,
\* so an order of the matching keys stands for every order that extends it.
search_wildcard(pattern) ==
    LET matching == {term \in DOMAIN index : wildcard_matches(term, pattern)}
        found == {<<term, search_term(term)>> : term \in matching}
        RECURSIVE Extend(_)
        Extend(order) ==
            IF order = <<>> THEN <<>>
            ELSE <<Head(order)[2].results>> \o Extend(Tail(order))
    IN IF \E f \in found : f[2].panic THEN {Panic}
       ELSE {Returned(dedup_by_key(sort_by_score(Flatten(Extend(order))))) :
                 order \in IterationOrders(found)}

\* The insertions of search_boolean with a map that keeps the SearchResult
\* it already has for a document.
InsertAllKeepingFirst(all_results, list) ==
    [d \in DOMAIN all_results \cup DocIds(list) |->
        IF d \in DOMAIN all_results THEN all_results[d]
        ELSE list[CHOOSE i \in DOMAIN list :
                     /\ list[i].doc_id = d
                     /\ \A j \in DOMAIN list : list[j].doc_id = d => j <= i]]

\* all_results after every element of list was inserted in order: the last
\* SearchResult of a document replaces the earlier ones.
InsertAll(all_results, list) ==
    [d \in DOMAIN all_results \cup DocIds(list) |->
        IF d \in DocIds(list)
        THEN list[CHOOSE i \in DOMAIN list :
                     /\ list[i].doc_id = d
                     /\ \A j \in DOMAIN list : list[j].doc_id = d => j <= i]
        ELSE all_results[d]]

RECURSIVE IntersectAll(_)
\* result_sets.into_iter().reduce(intersection)
IntersectAll(sets) ==
    IF Len(sets) = 1 THEN sets[1]
    ELSE IntersectAll(SubSeq(sets, 1, Len(sets) - 1)) \cap sets[Len(sets)]

RECURSIVE UnionAll(_)
\* result_sets.into_iter().reduce(union)
UnionAll(sets) ==
    IF Len(sets) = 1 THEN sets[1]
    ELSE UnionAll(SubSeq(sets, 1, Len(sets) - 1)) \cup sets[Len(sets)]

\* The match on the operator with the two sets of NOT taken the wrong way
\* round.
final_doc_ids_not_reversed(operator, result_sets) ==
    CASE operator = "And" -> [abort |-> FALSE, ids |-> IntersectAll(result_sets)]
      [] operator = "Or"  -> [abort |-> FALSE, ids |-> UnionAll(result_sets)]
      [] operator = "Not" ->
            IF Len(result_sets) # 2 THEN [abort |-> TRUE, ids |-> {}]
            ELSE [abort |-> FALSE, ids |-> result_sets[2] \ result_sets[1]]

\* The match on the operator in search_boolean: the final document ids, or
\* the early return of NOT (abort) when it has not exactly two subqueries.
final_doc_ids(operator, result_sets) ==
    CASE operator = "And" -> [abort |-> FALSE, ids |-> IntersectAll(result_sets)]
      [] operator = "Or"  -> [abort |-> FALSE, ids |-> UnionAll(result_sets)]
      [] operator = "Not" ->
            IF Len(result_sets) # 2 THEN [abort |-> TRUE, ids |-> {}]
            ELSE [abort |-> FALSE, ids |-> result_sets[1] \ result_sets[2]]

RECURSIVE execute_query(_)
RECURSIVE BooleanLoop(_, _)

\* The loop of search_boolean over the first k subqueries: the possible
\* values of (all_results, result_sets), or a panic of a subquery.
BooleanLoop(queries, k) ==
    IF k = 0
    THEN {[panic |-> FALSE, all_results |-> <<>>, result_sets |-> <<>>]}
    ELSE LET outcomes == execute_query(queries[k]) IN
         UNION {
           IF st.panic THEN {st}
           ELSE {IF o.panic
                 THEN [panic |-> TRUE, all_results |-> <<>>, result_sets |-> <<>>]
                 ELSE [panic |-> FALSE,
                       all_results |-> InsertAll(st.all_results, o.results),
                       result_sets |-> Append(st.result_sets, DocIds(o.results))] :
                 o \in outcomes} :
           st \in BooleanLoop(queries, k - 1)}

\* Searcher::search_boolean.  final_doc_ids is a HashSet: the results are
\* collected in one of its iteration orders and then sorted.
search_boolean(operator, queries) ==
    IF queries = <<>> THEN {Returned(<<>>)}
    ELSE UNION {
           IF st.panic THEN {Panic}
           ELSE LET final == final_doc_ids(operator, st.result_sets) IN
                IF final.abort THEN {Returned(<<>>)}
                ELSE {Returned(sort_by_score(
                          [i \in DOMAIN order |-> st.all_results[order[i]]])) :
                          order \in IterationOrders(
                              {d \in final.ids : d \in DOMAIN st.all_results})} :
           st \in BooleanLoop(queries, Len(queries))}

\* Searcher::execute_query: the set of outcomes the call can have.
execute_query(q) ==
    CASE q.kind = "Term"     -> {search_term(q.term)}
      [] q.kind = "Boolean"  -> search_boolean(q.operator, q.queries)
      [] q.kind = "Phrase"   -> search_phrase(q.terms)
      [] q.kind = "Wildcard" -> search_wildcard(q.pattern)

\* Query::Term, Query::Boolean, Query::Phrase, Query::Wildcard.  Every
\* variant is a record of the same shape; a variant leaves the fields of the
\* other variants empty.
EmptyQuery ==
    [kind |-> "None", term |-> <<>>, operator |-> "None", queries |-> <<>>,
     terms |-> <<>>, pattern |-> <<>>]

Term(term) == [EmptyQuery EXCEPT !.kind = "Term", !.term = term]

Boolean(operator, queries) ==
    [EmptyQuery EXCEPT !.kind = "Boolean", !.operator = operator,
                       !.queries = queries]

Phrase(terms) == [EmptyQuery EXCEPT !.kind = "Phrase", !.terms = terms]

Wildcard(pattern) == [EmptyQuery EXCEPT !.kind = "Wildcard", !.pattern = pattern]

\* The value of query when the last call was not a query.
NoQuery == EmptyQuery

(***************************************************************************)
(* The inputs of the model                                                 *)
(***************************************************************************)
MaxDocs == 2

\* The number of documents when only term queries are made.
MaxTermDocs == 3

MaxSubqueries == 2

MaxPhraseTerms == 2

\* n copies of the word w
RECURSIVE Repeat(_, _)
Repeat(w, n) == IF n = 0 THEN <<>> ELSE w \o Repeat(w, n - 1)

\* A word of 25 two-byte letters: 50 bytes, the longest word that is kept.
LongWord == Repeat(<<"é">>, 25)

\* The documents the caller may add, as <<title, content>>: an empty
\* document; a term in title and content; a term that is a prefix of the
\* next word; a two-byte letter, a stop word and a short word; a content
\* longer than the snippet window; a term in the title only.
Corpus == {
    << <<>>, <<>> >>,
    << <<"A","b">>, <<"a","b"," ","a","c">> >>,
    << <<>>, <<"a","b"," ","a","c","x"," ","a","c">> >>,
    << <<>>, <<"a","ß"," ","t","h","e"," ","x"," ","a","c">> >>,
    << <<>>, <<"a","b"," ">> \o LongWord >>,
    << <<"A","b">>, <<"a","c">> >> }

\* A content of 61 one-byte characters whose only retained words are the
\* "ab" at its two ends: longer than the 52 characters of the window around
\* the first of them.
LongContent ==
    <<"a","b">> \o Repeat(<<" ","x">>, 28) \o <<" ","a","b">>

\* The documents of the larger index: those of Corpus and one with a long
\* content, a word twice in it and another word in the title only.
TermCorpus == Corpus \cup { << <<"A","c">>, LongContent >> }

QueryTerms == { <<>>, <<"a","b">>, <<"A","c">>, <<"a","ß">>, <<"z","z">> }

PhraseWords == { <<"a","b">>, <<"A","c">>, <<"z","z">> }

Patterns == { <<"a","*">>, <<"*","C">>, <<"*">>, <<"a","c">>,
              <<"a","*","c">>, <<"z","*">> }

Operators == {"And", "Or", "Not"}

SubQueries == { Term(<<"a","b">>), Term(<<"A","c">>), Wildcard(<<"a","c","*">>) }

\* The sequences over S of length at most n
SeqsUpTo(S, n) == UNION {[1..k -> S] : k \in 0..n}

BooleanQueries ==
    {Boolean(operator, queries) :
        operator \in Operators, queries \in SeqsUpTo(SubQueries, MaxSubqueries)}

PhraseQueries == {Phrase(terms) : terms \in SeqsUpTo(PhraseWords, MaxPhraseTerms)}

\* The number of configuration calls made on the caller's tokenizer.
MaxConfigCalls == 3

\* The words given to add_stop_word and remove_stop_word: a word that is
\* no stop word at first, in mixed case, and one that is.
StopWordArgs == { <<"A","b">>, <<"t","h","e">> }

MinLengths == {1, 3}

MaxLengths == {2, 100}

\* A word of 50 two-byte letters: 50 characters, 100 bytes.
AccentedWord == Repeat(<<"é">>, 50)

\* The texts given to tokenize: the empty text; a single two-byte letter;
\* 50 two-byte letters; words in mixed case between several separators,
\* after a two-byte letter, with a stop word, short words and a word that
\* ends with the text; a word inside separators.
Texts == {
    <<>>,
    <<"é">>,
    AccentedWord,
    <<"é"," ","T","h","e"," ","A","b","-","c",","," ","É","9"," ","x"," ",
      "a","b","c">>,
    <<" ","a","b"," "," ">> }

\* The number of letters in front of the suffix of a word given to stem.
MaxStemLetters == 3

\* The letters in front of the suffix: a one-byte letter, a two-byte
\* letter and an upper-case letter whose lower case is a suffix.
StemLetters == {"r", "é", "S"}

\* The endings of the words given to stem: the suffixes it removes, in
\* lower and upper case, "ss" and no ending.
StemSuffixes == {
    <<>>, <<"i","n","g">>, <<"e","d">>, <<"l","y">>, <<"e","s">>, <<"s">>,
    <<"s","s">>, <<"I","N","G">> }

\* The words given to stem, with the examples of the tests.
StemWords ==
    {letters \o suffix :
        letters \in SeqsUpTo(StemLetters, MaxStemLetters), suffix \in StemSuffixes}
      \cup { <<"r","u","n","n","i","n","g">>, <<"c","l","a","s","s">> }

\* The longest run of filler characters before and after the words of a
\* snippet content: one more than the context of the window.
MaxSnippetPad == 51

\* The lengths of the filler: none, the context of the window exactly, one
\* more.
SnippetPads == {0, SnippetContext, MaxSnippetPad}

\* The words in the middle of a snippet content: none, a word, the word
\* twice, the word in capitals after a two-byte letter, the word before a
\* long word of two-byte letters.
SnippetWords ==
    { <<>>, <<"a","b">>, <<"a","b"," ","a","b">>, <<"é"," ","A","B">>,
      <<"a","b"," ">> \o LongWord }

\* The contents generate_snippet is called on: filler, words, filler.
SnippetContents ==
    {Repeat(<<"x">>, before) \o words \o Repeat(<<"y">>, after) :
        before \in SnippetPads, words \in SnippetWords, after \in SnippetPads}

\* The queries generate_snippet is called on.
SnippetQueries == { <<>>, <<"a","b">>, <<"A","b">>, <<"z","z">>, <<"é">> }

\* One configuration call, as the caller made it.
ConfigCall(call, word, length) == [call |-> call, word |-> word, length |-> length]

(***************************************************************************)
(* The state machine                                                       *)
(***************************************************************************)
\* InvertedIndex::new
Init ==
    /\ index = <<>>
    /\ documents = <<>>
    /\ next_id = 0
    /\ total_terms = 0
    /\ query = NoQuery
    /\ results = <<>>
    /\ panicked = FALSE
    /\ calls = 0
    /\ returned_id = NoId
    /\ tokenizer = TokenizerNew
    /\ config_calls = <<>>
    /\ input_text = <<>>
    /\ returned_tokens = <<>>
    /\ stem_input = <<>>
    /\ stem_output = <<>>
    /\ snippet_content = <<>>
    /\ snippet_query = <<>>
    /\ snippet_outcome = [panic |-> FALSE, text |-> <<>>]

\* DocumentStore::add_document with an id that is handed out again
document_store_add_document_reusing_id(title, content) ==
    /\ next_id' = next_id
    /\ documents' = [id \in DOMAIN documents \cup {next_id} |->
                        IF id = next_id THEN DocumentNew(next_id, title, content)
                        ELSE documents[id]]
    /\ returned_id' = next_id

\* DocumentStore::add_document.  The id it returns is the id that
\* InvertedIndex::add_document returns.
document_store_add_document(title, content) ==
    /\ next_id' = next_id + 1
    /\ documents' = [id \in DOMAIN documents \cup {next_id} |->
                        IF id = next_id THEN DocumentNew(next_id, title, content)
                        ELSE documents[id]]
    /\ returned_id' = next_id

\* InvertedIndex::add_document
add_document(title, content) ==
    LET doc_id == next_id
        title_terms == extract_terms(title, "Title")
        content_terms == extract_terms(content, "Content")
        term_positions == MergeTermPositions(title_terms, content_terms)
    IN /\ document_store_add_document(title, content)
       /\ index' = IndexWithDocument(index, doc_id, term_positions)
       /\ total_terms' = total_terms + Cardinality(DOMAIN term_positions)
       /\ calls' = calls + 1
       /\ query' = NoQuery
       /\ results' = <<>>
       /\ panicked' = FALSE
       /\ UNCHANGED <<tokenizer_vars, stemmer_vars, snippet_vars>>

AddDocument ==
    /\ next_id < MaxDocs
    /\ \E doc \in Corpus : add_document(doc[1], doc[2])

\* add_document on the larger index of TermSpec
TermAddDocument ==
    /\ next_id < MaxTermDocs
    /\ \E doc \in TermCorpus : add_document(doc[1], doc[2])

\* Searcher::search_with_query: the call returns one of the outcomes of
\* execute_query and leaves the index alone.
search_with_query(q) ==
    /\ query = NoQuery
    /\ \E o \in execute_query(q) :
          /\ results' = o.results
          /\ panicked' = o.panic
    /\ query' = q
    /\ UNCHANGED <<index, documents, next_id, total_terms, calls, returned_id>>
    /\ UNCHANGED <<tokenizer_vars, stemmer_vars, snippet_vars>>

SearchTerm == \E term \in QueryTerms : search_with_query(Term(term))

SearchBoolean == \E q \in BooleanQueries : search_with_query(q)

SearchPhrase == \E q \in PhraseQueries : search_with_query(q)

SearchWildcard == \E pattern \in Patterns : search_with_query(Wildcard(pattern))

\* The caller drops the Vec<SearchResult> of its last query and goes on to
\* its next call.
DropResults ==
    /\ query # NoQuery
    /\ query' = NoQuery
    /\ results' = <<>>
    /\ panicked' = FALSE
    /\ UNCHANGED <<index, documents, next_id, total_terms, calls, returned_id>>
    /\ UNCHANGED <<tokenizer_vars, stemmer_vars, snippet_vars>>

Next ==
    \/ AddDocument
    \/ SearchTerm
    \/ SearchBoolean
    \/ SearchPhrase
    \/ SearchWildcard
    \/ DropResults

Spec == Init /\ [][Next]_vars

\* A larger index on which only term queries are made.
TermNext ==
    \/ TermAddDocument
    \/ SearchTerm
    \/ DropResults

TermSpec == Init /\ [][TermNext]_vars

\* A configuration call on the caller's tokenizer: the caller has dropped
\* the tokens of its last tokenize call.
configure(call, tk) ==
    /\ Len(config_calls) < MaxConfigCalls
    /\ tokenizer' = tk
    /\ config_calls' = Append(config_calls, call)
    /\ input_text' = <<>>
    /\ returned_tokens' = <<>>
    /\ UNCHANGED <<index_vars, stemmer_vars, snippet_vars>>

AddStopWord ==
    \E word \in StopWordArgs :
        configure(ConfigCall("add_stop_word", word, 0),
                  add_stop_word(tokenizer, word))

RemoveStopWord ==
    \E word \in StopWordArgs :
        configure(ConfigCall("remove_stop_word", word, 0),
                  remove_stop_word(tokenizer, word))

SetMinTokenLength ==
    \E length \in MinLengths :
        configure(ConfigCall("set_min_token_length", <<>>, length),
                  set_min_token_length(tokenizer, length))

SetMaxTokenLength ==
    \E length \in MaxLengths :
        configure(ConfigCall("set_max_token_length", <<>>, length),
                  set_max_token_length(tokenizer, length))

\* Tokenizer::tokenize on the caller's tokenizer: &self, so the
\* configuration stays.
Tokenize ==
    \E t \in Texts :
        /\ input_text' = t
        /\ returned_tokens' = tokenize(tokenizer, t)
        /\ UNCHANGED <<tokenizer, config_calls>>
        /\ UNCHANGED <<index_vars, stemmer_vars, snippet_vars>>

\* A tokenizer of its own, configured and used by its caller.
TokenizerNext ==
    \/ AddStopWord
    \/ RemoveStopWord
    \/ SetMinTokenLength
    \/ SetMaxTokenLength
    \/ Tokenize

TokenizerSpec == Init /\ [][TokenizerNext]_vars

\* SimpleStemmer::stem, a function without state, called by its caller.
Stem ==
    \E w \in StemWords :
        /\ stem_input' = w
        /\ stem_output' = stem(w)
        /\ UNCHANGED <<index_vars, tokenizer_vars, snippet_vars>>

StemmerNext == Stem

StemmerSpec == Init /\ [][StemmerNext]_vars

\* A call of Searcher::generate_snippet on a content and a query text.
GenerateSnippet ==
    \E content \in SnippetContents, q \in SnippetQueries :
        /\ snippet_content' = content
        /\ snippet_query' = q
        /\ snippet_outcome' = generate_snippet(content, q)
        /\ UNCHANGED <<index_vars, tokenizer_vars, stemmer_vars>>

SnippetNext == GenerateSnippet

\* The snippet function on its own.
SnippetSpec == Init /\ [][SnippetNext]_vars

(***************************************************************************)
(* What the documents say, without the index                               *)
(***************************************************************************)
\* The terms tokenize retains from the title or the content of a document.
RetainedTerms(doc) ==
    LET title_tokens == tokenize(TokenizerNew, doc.title)
        content_tokens == tokenize(TokenizerNew, doc.content)
    IN {title_tokens[i].text : i \in DOMAIN title_tokens}
         \cup {content_tokens[i].text : i \in DOMAIN content_tokens}

\* The pairs of a stored document and one of its retained terms.
DocumentTerms ==
    UNION {{<<d, t>> : t \in RetainedTerms(documents[d])} : d \in DOMAIN documents}

\* The documents that yielded the retained token t.
DocsWithTerm(t) == {d \in DOMAIN documents : t \in RetainedTerms(documents[d])}

\* Every word of a text, lowercased: nothing is filtered.
Words(text) ==
    LET all == tokenize([stop_words |-> {}, min_token_length |-> 0,
                         max_token_length |-> Len(text) * 2], text)
    IN [i \in DOMAIN all |-> all[i].text]

\* The terms stand next to each other, in order, among the words.
AdjacentWords(words, terms) ==
    \E i \in 0..(Len(words) - Len(terms)) :
        \A k \in DOMAIN terms : words[i + k] = to_lowercase(terms[k])

\* How many results carry document id d.
ResultCount(list, d) == Cardinality({i \in DOMAIN list : list[i].doc_id = d})

\* The document ids of a list with the score of each.
IdScores(list) == {<<list[i].doc_id, list[i].score>> : i \in DOMAIN list}

\* The terms of the corpus.
CorpusTerms ==
    UNION {RetainedTerms([title |-> doc[1], content |-> doc[2]]) : doc \in Corpus}

\* The terms the index is asked about: the query terms, the terms of the
\* corpus and their upper-case spellings.
ProbeTerms ==
    QueryTerms \cup CorpusTerms \cup {to_uppercase(t) : t \in CorpusTerms}

(***************************************************************************)
(* Claims                                                                  *)
(***************************************************************************)
\* C1: the list a wildcard query returns holds exactly one SearchResult for
\* every document that has a term matching the pattern, and no other.
C1_WildcardOneResultPerDocument ==
    (query.kind = "Wildcard" /\ ~panicked) =>
        LET matching == {d \in DOMAIN documents :
                            \E t \in RetainedTerms(documents[d]) :
                                wildcard_matches(t, query.pattern)}
        IN /\ DocIds(results) = matching
           /\ \A d \in matching : ResultCount(results, d) = 1

RECURSIVE SubqueryOutcomes(_)
\* The lists the subqueries return when each is evaluated on its own.
SubqueryOutcomes(queries) ==
    IF queries = <<>> THEN <<>>
    ELSE <<execute_query(Head(queries))>> \o SubqueryOutcomes(Tail(queries))

\* The document-id sets of subqueries with the given outcomes.
SubqueryDocIds(outcomes) ==
    [k \in DOMAIN outcomes |-> UNION {DocIds(o.results) : o \in outcomes[k]}]

\* Every subquery returns a list, and every list it can return has the same
\* document ids.
SubqueriesHaveDocIds(outcomes) ==
    \A k \in DOMAIN outcomes : \A o \in outcomes[k] :
        ~o.panic /\ DocIds(o.results) = SubqueryDocIds(outcomes)[k]

\* C2: when the subqueries have the document-id sets S1..Sn, the Boolean
\* query returns the intersection of the Si for AND, their union for OR and
\* S1 \ S2 for NOT with n = 2, each document once; so NOT of two term queries
\* returns |A| - |A \cap B| results.
C2_BooleanSetAlgebra ==
    (query.kind = "Boolean" /\ query.queries # <<>>) =>
        LET outcomes == SubqueryOutcomes(query.queries)
            S == SubqueryDocIds(outcomes)
            n == Len(query.queries)
        IN SubqueriesHaveDocIds(outcomes) =>
           /\ ~panicked
           /\ \A d \in DocIds(results) : ResultCount(results, d) = 1
           /\ query.operator = "And" =>
                 DocIds(results) = {d \in S[1] : \A k \in 1..n : d \in S[k]}
           /\ query.operator = "Or" =>
                 DocIds(results) = UNION {S[k] : k \in 1..n}
           /\ (query.operator = "Not" /\ n = 2) =>
                 /\ DocIds(results) = S[1] \ S[2]
                 /\ Len(results) = Cardinality(S[1]) - Cardinality(S[1] \cap S[2])

\* A NOT of two subqueries that share a document and differ in another.
C2_Witness ==
    /\ query.kind = "Boolean" /\ query.operator = "Not" /\ Len(query.queries) = 2
    /\ LET outcomes == SubqueryOutcomes(query.queries)
           S == SubqueryDocIds(outcomes)
       IN SubqueriesHaveDocIds(outcomes) /\ S[1] \cap S[2] # {}
    /\ results # <<>>

\* C3: a Boolean query without subqueries, and a NOT that has not exactly
\* two subqueries, return the empty list and do not fault, whatever the
\* index holds.
C3_EmptyAndArity ==
    (query.kind = "Boolean"
        /\ (query.queries = <<>>
              \/ (query.operator = "Not" /\ Len(query.queries) # 2))) =>
        (~panicked /\ results = <<>>)

\* C4: a term query returns one SearchResult for each document that yielded
\* the lowercased term as a retained token and no other result, each with
\* the stored title of its document.
C4_TermQueryResults ==
    query.kind = "Term" =>
        /\ ~panicked
        /\ DocIds(results) = DocsWithTerm(to_lowercase(query.term))
        /\ \A d \in DocIds(results) : ResultCount(results, d) = 1
        /\ \A i \in DOMAIN results :
              results[i].title = documents[results[i].doc_id].title

\* C5: the list a term query returns is in non-increasing order of score.
C5_TermResultsRanked ==
    (query.kind = "Term" /\ ~panicked) =>
        \A i \in 1..(Len(results) - 1) : results[i].score >= results[i + 1].score

\* A term query whose sort moved a later document in front of an earlier one.
C5_Witness ==
    /\ query.kind = "Term" /\ ~panicked
    /\ Len(results) >= 2
    /\ results[1].score > results[2].score
    /\ results[1].doc_id > results[2].doc_id

\* The upper-case spelling of a query string, and the one that has only its
\* first character in upper case.
CaseVariants(q) ==
    {to_uppercase(q)}
      \cup (IF q = <<>> THEN {}
            ELSE {char_to_uppercase(Head(q)) \o to_lowercase(Tail(q))})

\* C6: a term query gives the same document ids with the same scores for a
\* query string and for its upper-case and mixed-case spellings.
C6_CaseInvariance ==
    (query.kind = "Term" /\ ~panicked) =>
        \A v \in CaseVariants(query.term) :
            /\ ~search_term(v).panic
            /\ IdScores(search_term(v).results) = IdScores(results)

C8_TermFrequencyIsPositions ==
    \A term \in DOMAIN index : \A i \in DOMAIN index[term].postings :
        index[term].postings[i].term_frequency
            = Len(index[term].postings[i].positions)

\* A posting of a term that stands in the title and in the content.
C8_Witness ==
    \E term \in DOMAIN index : \E i \in DOMAIN index[term].postings :
        LET p == index[term].postings[i] IN
        /\ Len(p.positions) = 2
        /\ p.positions[1].field = "Title" /\ p.positions[2].field = "Content"

\* C9: every PostingList has document_frequency equal to the number of its
\* PostingEntry values.
C9_DocumentFrequencyIsPostings ==
    \A term \in DOMAIN index :
        index[term].document_frequency = Len(index[term].postings)

\* A posting list of three documents beside one of a single document.
C9_Witness ==
    /\ \E term \in DOMAIN index : index[term].document_frequency = 3
    /\ \E term \in DOMAIN index : index[term].document_frequency = 1

\* C10: get_document_frequency(t) is the number of added documents that
\* yielded the retained token t (t in lower case), a document counting once
\* when t is in its title and in its content: at least 1 for every term of
\* an added document, 0 for a term of no document.
C10_DocumentFrequency ==
    LET terms == DocumentTerms IN
    /\ \A t \in ProbeTerms :
          get_document_frequency(t)
              = Cardinality({d \in DOMAIN documents : <<d, to_lowercase(t)>> \in terms})
    /\ \A dt \in terms : get_document_frequency(dt[2]) >= 1

\* Two documents hold a term, one of them in title and content, and a
\* probed term is in no document.
C10_Witness ==
    /\ \E t \in DOMAIN index :
          /\ get_document_frequency(t) = 2
          /\ \E i \in DOMAIN index[t].postings : index[t].postings[i].term_frequency = 2
    /\ \E t \in ProbeTerms : get_document_frequency(t) = 0
    /\ next_id >= 2


\* How many of the tokens have the text t.
TokenCount(token_list, t) ==
    Cardinality({i \in DOMAIN token_list : token_list[i].text = t})

\* C11: get_term_frequency(t, d) is the number of retained tokens equal to
\* the lowercased t in the title of d plus the number in the content of d;
\* it is 0 when d has no such token, when no document has t, and when d is
\* an id that add_document never returned.
C11_TermFrequency ==
    \A d \in 0..next_id :
        IF d \in DOMAIN documents
        THEN LET title_tokens == tokenize(TokenizerNew, documents[d].title)
                 content_tokens == tokenize(TokenizerNew, documents[d].content)
             IN \A t \in ProbeTerms :
                    get_term_frequency(t, d)
                        = TokenCount(title_tokens, to_lowercase(t))
                            + TokenCount(content_tokens, to_lowercase(t))
        ELSE \A t \in ProbeTerms : get_term_frequency(t, d) = 0

\* Three documents: a term given in upper case has frequency 2 in the
\* second document (title and content), 1 in the third and 0 in the first,
\* and frequency 0 in the id that was not handed out yet.
C11_Witness ==
    /\ next_id = 3
    /\ \E t \in ProbeTerms :
          /\ t # to_lowercase(t)
          /\ get_term_frequency(t, 0) = 0
          /\ get_term_frequency(t, 1) = 2
          /\ get_term_frequency(t, 2) = 1
          /\ get_term_frequency(t, 3) = 0
          /\ get_document_frequency(t) = 2


\* C12: the k-th add_document call (k from 0) returns id k; after n calls
\* total_documents is n and get_document(i) is present exactly for i < n,
\* also for documents that are empty.
C12_SequentialIds ==
    /\ calls > 0 => returned_id = calls - 1
    /\ total_documents = calls
    /\ \A i \in 0..(calls + 1) : (get_document(i) # {}) <=> (i < calls)

\* The third call returned id 2 after an empty document got id 1.
C12_Witness ==
    /\ calls = 3
    /\ returned_id = 2
    /\ get_document(1) = {DocumentNew(1, <<>>, <<>>)}
    /\ get_document(0) # {} /\ get_document(2) # {}


\* C13: whatever documents were added, a term, Boolean, phrase or wildcard
\* query returns a result list and does not fault: the offsets at which
\* the snippet is cut lie in the content and on character boundaries.
C13_QueriesNeverFault ==
    query # NoQuery => ~panicked


\* The indices (from 1) at which a maximal run of alphanumeric characters
\* of t starts.
RunStarts(t) ==
    {i \in 1..Len(t) :
        is_alphanumeric(t[i]) /\ (i = 1 \/ ~is_alphanumeric(t[i - 1]))}

\* The index of the last character of the run that starts at index i.
RunEnd(t, i) ==
    CHOOSE j \in i..Len(t) :
        /\ \A k \in i..j : is_alphanumeric(t[k])
        /\ j = Len(t) \/ ~is_alphanumeric(t[j + 1])

RECURSIVE RunsFrom(_, _)
\* The maximal runs of t that start at one of the indices, from left to
\* right, each as [first, last].
RunsFrom(t, starts) ==
    IF starts = {} THEN <<>>
    ELSE LET i == Min(starts)
         IN <<[first |-> i, last |-> RunEnd(t, i)]>> \o RunsFrom(t, starts \ {i})

\* The maximal runs of alphanumeric characters of t, from left to right.
Runs(t) == RunsFrom(t, RunStarts(t))

\* The word of a run, in lower case.
RunWord(t, run) == to_lowercase(SubSeq(t, run.first, run.last))

\* A word with so many characters is within the length bounds of tk.
WithinLengthBounds(tk, characters) ==
    characters >= tk.min_token_length /\ characters <= tk.max_token_length

\* The runs of t that tk has to keep: the lowercased word has a number of
\* characters within the length bounds and is no stop word.
QualifyingRuns(tk, t) ==
    SelectSeq(Runs(t),
              LAMBDA run : /\ WithinLengthBounds(tk, Len(RunWord(t, run)))
                           /\ RunWord(t, run) \notin tk.stop_words)

\* The texts of the tokens, in the order of the tokens.
TokenTexts(token_list) == [i \in DOMAIN token_list |-> token_list[i].text]

\* C14: tokenize returns, from left to right, exactly the lowercased
\* maximal runs of alphanumeric characters of the text whose length is
\* within the bounds and that are no stop words, the run that ends with
\* the text included.
C14_TokensAreQualifyingRuns ==
    LET runs == QualifyingRuns(tokenizer, input_text)
    IN TokenTexts(returned_tokens) = [i \in DOMAIN runs |-> RunWord(input_text, runs[i])]


C16_OffsetsAreCharacterIndices ==
    /\ \A i \in DOMAIN returned_tokens :
          LET token == returned_tokens[i] IN
          /\ 0 <= token.start_offset /\ token.start_offset < token.end_offset
          /\ token.end_offset <= Len(input_text)
          /\ token.start_offset + 1 \in RunStarts(input_text)
          /\ token.end_offset = RunEnd(input_text, token.start_offset + 1)
          /\ to_lowercase(SubSeq(input_text, token.start_offset + 1, token.end_offset))
                = token.text
    /\ \A i \in 1..(Len(returned_tokens) - 1) :
          returned_tokens[i].end_offset < returned_tokens[i + 1].start_offset

\* A token of a word in mixed case that stands behind a two-byte letter and
\* behind a rejected word, and a token with a two-byte letter behind it.
C16_Witness ==
    \E i, j \in DOMAIN returned_tokens :
        LET token == returned_tokens[i] IN
        /\ SubSeq(input_text, token.start_offset + 1, token.end_offset) # token.text
        /\ Utf8LenUpTo(input_text, token.start_offset) > token.start_offset
        /\ \E k \in DOMAIN Runs(input_text) :
              /\ Runs(input_text)[k].first - 1 < token.start_offset
              /\ \A n \in DOMAIN returned_tokens :
                    returned_tokens[n].start_offset # Runs(input_text)[k].first - 1
        /\ j > i
        /\ str_len(returned_tokens[j].text) > Len(returned_tokens[j].text)


\* C17: a word yields a token only if its lowercased form has a number of
\* characters within the length bounds; with the default bounds the word
\* of the single letter e-acute yields no token and a word of 50 accented
\* letters yields one.
C17_LengthInCharacters ==
    /\ \A i \in DOMAIN returned_tokens :
          WithinLengthBounds(tokenizer, Len(returned_tokens[i].text))
    /\ (tokenizer = TokenizerNew /\ input_text = <<"é">>) => returned_tokens = <<>>
    /\ (tokenizer = TokenizerNew /\ input_text = AccentedWord) =>
          TokenTexts(returned_tokens) = <<AccentedWord>>


RECURSIVE ConfiguredStopWords(_)
\* The stop words after the configuration calls cs, made in this order on
\* a new tokenizer: a word is added and removed in lower case.
ConfiguredStopWords(cs) ==
    IF cs = <<>> THEN common_stop_words
    ELSE LET last == cs[Len(cs)]
             before == ConfiguredStopWords(SubSeq(cs, 1, Len(cs) - 1))
         IN IF last.call = "add_stop_word"
            THEN before \cup {to_lowercase(last.word)}
            ELSE IF last.call = "remove_stop_word"
            THEN before \ {to_lowercase(last.word)}
            ELSE before

\* The length that the last call of this name among cs has set, or the
\* default.
ConfiguredLength(cs, call, default) ==
    LET set == {i \in DOMAIN cs : cs[i].call = call}
    IN IF set = {} THEN default
       ELSE cs[CHOOSE i \in set : \A j \in set : j <= i].length

\* The configuration that the calls cs produce.
Configured(cs) ==
    [stop_words |-> ConfiguredStopWords(cs),
     min_token_length |->
         ConfiguredLength(cs, "set_min_token_length", DefaultMinTokenLength),
     max_token_length |->
         ConfiguredLength(cs, "set_max_token_length", DefaultMaxTokenLength)]

\* C18: the tokenizer has the stop words and length bounds that the
\* configuration calls made so far produce, tokenize calls changing
\* nothing, and a tokenize call returns what these stop words and bounds
\* give for its text: no stop word, no word of one-byte characters outside
\* the bounds, and the same tokens whenever the text is the same.
C18_ConfigurationTakesEffect ==
    LET configured == Configured(config_calls) IN
    /\ tokenizer = configured
    /\ returned_tokens = tokenize(configured, input_text)
    /\ \A i \in DOMAIN returned_tokens :
          LET word == returned_tokens[i].text IN
          /\ word \notin configured.stop_words
          /\ str_len(word) = Len(word) => WithinLengthBounds(configured, Len(word))

\* After a stop word was removed, a word was added as stop word in mixed
\* case and the minimum was set, a text holds the first as token and the
\* second not.
C18_Witness ==
    /\ Len(config_calls) = 3
    /\ \E i, j, k \in DOMAIN config_calls :
          /\ config_calls[i] = ConfigCall("remove_stop_word", <<"t","h","e">>, 0)
          /\ config_calls[j] = ConfigCall("add_stop_word", <<"A","b">>, 0)
          /\ config_calls[k] = ConfigCall("set_min_token_length", <<>>, 3)
    /\ \E run \in {Runs(input_text)[n] : n \in DOMAIN Runs(input_text)} :
          RunWord(input_text, run) = <<"a","b">>
    /\ \E n \in DOMAIN returned_tokens : returned_tokens[n].text = <<"t","h","e">>
    /\ \A n \in DOMAIN returned_tokens : returned_tokens[n].text # <<"a","b">>


\* C19: every evaluation of a query against the same index returns the
\* same number of results, the same document ids and the same score for
\* each document id, whatever the iteration orders are.
C19_EvaluationDeterministic ==
    (query # NoQuery /\ ~panicked) =>
        \A o \in execute_query(query) :
            /\ ~o.panic
            /\ Len(o.results) = Len(results)
            /\ DocIds(o.results) = DocIds(results)
            /\ IdScores(o.results) = IdScores(results)


\* C20: every key of the term map is its own lower case, and
\* get_posting_list, get_document_frequency, get_term_frequency and the raw
\* search answer the same for a term and for its upper-case and mixed-case
\* spellings.
C20_CaseInsensitiveLookups ==
    /\ \A term \in DOMAIN index : term = to_lowercase(term)
    /\ \A t \in CorpusTerms \cup QueryTerms : \A v \in CaseVariants(t) :
          /\ get_posting_list(v) = get_posting_list(t)
          /\ get_document_frequency(v) = get_document_frequency(t)
          /\ \A d \in 0..next_id : get_term_frequency(v, d) = get_term_frequency(t, d)
          /\ index_search(v) = index_search(t)


\* What the claim says stem returns for the lowercased word: the first
\* suffix of the list that the word ends with and is long enough for, in
\* characters, is removed.
StemByCharacters(word) ==
    IF ends_with(word, <<"i","n","g">>) /\ Len(word) > 5
    THEN SubSeq(word, 1, Len(word) - 3)
    ELSE IF ends_with(word, <<"e","d">>) /\ Len(word) > 4
    THEN SubSeq(word, 1, Len(word) - 2)
    ELSE IF ends_with(word, <<"l","y">>) /\ Len(word) > 4
    THEN SubSeq(word, 1, Len(word) - 2)
    ELSE IF ends_with(word, <<"e","s">>) /\ Len(word) > 4
    THEN SubSeq(word, 1, Len(word) - 2)
    ELSE IF ends_with(word, <<"s">>) /\ Len(word) > 3 /\ ~ends_with(word, <<"s","s">>)
    THEN SubSeq(word, 1, Len(word) - 1)
    ELSE word

\* C21: stem lowercases the word and removes the first applicable suffix
\* of ing (more than 5 characters), ed, ly, es (more than 4), s (more than 3,
\* not ss), else returns the lowercased word; a result that lost a suffix
\* keeps at least 3 characters; stem("running") = "runn" and
\* stem("class") = "class".
C21_StemRemovesFirstSuffix ==
    /\ stem_output = StemByCharacters(to_lowercase(stem_input))
    /\ stem_output # to_lowercase(stem_input) => Len(stem_output) >= 3
    /\ stem_input = <<"r","u","n","n","i","n","g">> => stem_output = <<"r","u","n","n">>
    /\ stem_input = <<"c","l","a","s","s">> => stem_output = <<"c","l","a","s","s">>


\* The places of the term t among the retained tokens of one field, counted
\* from 0, in increasing order, as TermPositions of that field.
FieldPositions(token_list, t, field) ==
    LET places == SelectSeq([i \in DOMAIN token_list |-> i],
                            LAMBDA i : token_list[i].text = t)
    IN [k \in DOMAIN places |-> [position |-> places[k] - 1, field |-> field]]

SubqueriesHolding(outcomes, d) ==
    {k \in DOMAIN outcomes :
        \E o \in outcomes[k] : ~o.panic /\ d \in DocIds(o.results)}

Max(S) == CHOOSE x \in S : \A y \in S : x >= y

\* C23: every result of a Boolean query is a SearchResult (score and
\* snippet) that the last subquery holding its document returned, not a
\* combination of the subqueries' scores, and the list is in non-increasing
\* order of these scores.
C23_LastSubqueryWins ==
    (query.kind = "Boolean" /\ ~panicked) =>
        LET outcomes == SubqueryOutcomes(query.queries) IN
        /\ \A j \in DOMAIN results :
              LET holding == SubqueriesHolding(outcomes, results[j].doc_id) IN
              /\ holding # {}
              /\ \E o \in outcomes[Max(holding)] :
                    /\ ~o.panic
                    /\ \E i \in DOMAIN o.results : o.results[i] = results[j]
        /\ \A j \in 1..(Len(results) - 1) : results[j].score >= results[j + 1].score

\* A result whose document two subqueries hold with different scores, and
\* a list of two results with different scores.
C23_Witness ==
    /\ query.kind = "Boolean" /\ ~panicked
    /\ LET outcomes == SubqueryOutcomes(query.queries) IN
       \E j \in DOMAIN results :
          LET holding == SubqueriesHolding(outcomes, results[j].doc_id) IN
          /\ Cardinality(holding) >= 2
          /\ \E k \in holding : \A o \in outcomes[k] : \A i \in DOMAIN o.results :
                o.results[i].doc_id = results[j].doc_id
                    => o.results[i].score # results[j].score
    /\ Len(results) = 2 /\ results[1].score > results[2].score


\* The rule of the wildcard claim on one term t and a pattern p in lower
\* case: a prefix test, a suffix test or a containment test.
MatchesLowercasedPattern(t, p) ==
    LET ends == p # <<>> /\ p[Len(p)] = "*"
        starts == p # <<>> /\ p[1] = "*"
    IN IF ends /\ ~starts THEN starts_with(t, SubSeq(p, 1, Len(p) - 1))
       ELSE IF starts /\ ~ends THEN ends_with(t, SubSeq(p, 2, Len(p)))
       ELSE str_contains(t, SelectSeq(p, LAMBDA ch : ch # "*"))

\* The document ids of the postings of the term t.
PostingDocIds(t) == {index[t].postings[i].doc_id : i \in DOMAIN index[t].postings}

\* C24: a wildcard query returns, as its set of document ids, the union of
\* the posting document ids of every term of the vocabulary that matches
\* the lowercased pattern by prefix, by suffix or by containment; a bare
\* "*" returns every document that has an indexed term.
C24_WildcardIdsAreUnionOfPostings ==
    query.kind = "Wildcard" =>
        /\ ~panicked
        /\ DocIds(results)
              = UNION {PostingDocIds(t) :
                          t \in {u \in DOMAIN index :
                                   MatchesLowercasedPattern(u, to_lowercase(query.pattern))}}
        /\ query.pattern = <<"*">> =>
              DocIds(results) = {d \in DOMAIN documents : RetainedTerms(documents[d]) # {}}


\* The characters of s that lie between the byte offsets start and end.
ByteWindow(s, start, end) ==
    LET inside == SelectSeq([i \in DOMAIN s |-> i],
                            LAMBDA i : /\ Utf8LenUpTo(s, i - 1) >= start
                                       /\ Utf8LenUpTo(s, i) <= end)
    IN [k \in DOMAIN inside |-> s[inside[k]]]

\* The snippet of the description, with the offsets and lengths of the
\* window in bytes and the 100 of the other case in characters.
SnippetAsDescribed(content, q) ==
    LET lower_content == to_lowercase(content)
        lower_query == to_lowercase(q)
        occurrences == {i \in 0..(Len(lower_content) - Len(lower_query)) :
                           OccursAt(lower_content, lower_query, i)}
    IN IF occurrences # {}
       THEN LET pos == Utf8LenUpTo(lower_content, Min(occurrences))
                len == str_len(content)
                start == IF pos > SnippetContext THEN pos - SnippetContext ELSE 0
                end == Minimum(len, pos + str_len(q) + SnippetContext)
            IN (IF start > 0 THEN Ellipsis ELSE <<>>)
               \o ByteWindow(content, start, end)
               \o (IF end < len THEN Ellipsis ELSE <<>>)
       ELSE SubSeq(content, 1, Minimum(SnippetFallbackChars, Len(content)))
            \o Ellipsis

\* C25: for every content and query, the snippet is the window of 50
\* before and 50 after the first occurrence of the lowercased query in the
\* lowercased content, with "..." before it exactly when it starts after
\* offset 0 and "..." after it exactly when it ends before the end of the
\* content; when the query does not occur, the first 100 characters of the
\* content followed by "...".
C25_SnippetWindow ==
    /\ ~snippet_outcome.panic
    /\ snippet_outcome.text = SnippetAsDescribed(snippet_content, snippet_query)


\* One step leaves the stored documents and the postings as they were and
\* appends only postings of the new document id; no count decreases and no
\* term loses a document.
OnlyAppends ==
    /\ \A id \in DOMAIN documents :
          id \in DOMAIN documents' /\ documents'[id] = documents[id]
    /\ \A t \in DOMAIN index :
          /\ t \in DOMAIN index'
          /\ Len(index'[t].postings) >= Len(index[t].postings)
          /\ SubSeq(index'[t].postings, 1, Len(index[t].postings)) = index[t].postings
    /\ \A t \in DOMAIN index' : \A i \in DOMAIN index'[t].postings :
          (t \notin DOMAIN index \/ i > Len(index[t].postings)) =>
              /\ index'[t].postings[i].doc_id = next_id
              /\ next_id \notin DOMAIN documents
              /\ next_id \in DOMAIN documents'
    /\ total_documents' >= total_documents
    /\ total_unique_terms' >= total_unique_terms
    /\ \A t \in QueryTerms \cup DOMAIN index' :
          /\ get_document_frequency(t)' >= get_document_frequency(t)
          /\ Range(index_search(t)) \subseteq Range(index_search(t)')

\* C26: every add_document leaves every stored document and every posting
\* that existed before the call unchanged and only appends postings of the
\* new document id, so total_documents, total_unique_terms and every
\* document frequency never decrease and the ids returned for a term after
\* the call include those returned before it.
C26_IndexOnlyGrows == [][OnlyAppends]_vars

\* The second document gave a posting to a term of the first document and
\* brought a term of its own.
C26_Witness ==
    /\ next_id >= 2
    /\ \E t \in DOMAIN index :
          /\ Len(index[t].postings) >= 2
          /\ index[t].postings[1].doc_id = 0
          /\ index[t].postings[2].doc_id = 1
    /\ \E t \in DOMAIN index :
          Len(index[t].postings) = 1 /\ index[t].postings[1].doc_id = 1


\* C27: in the results of a term query the score is 0 exactly when the
\* document frequency of the term is total_documents (documents without
\* retained tokens count) and positive otherwise; a result with a larger
\* term frequency has no smaller score than one with a smaller term
\* frequency; and for the same term frequency and number of documents the
\* score of a posting is larger when the document frequency is smaller.
C27_ScoreSignAndMonotonicity ==
    /\ (query.kind = "Term" /\ ~panicked) =>
          LET df == get_document_frequency(query.term) IN
          /\ \A i \in DOMAIN results :
                /\ results[i].score >= 0
                /\ results[i].score = 0 <=> df = total_documents
          /\ \A i, j \in DOMAIN results :
                get_term_frequency(query.term, results[i].doc_id)
                    > get_term_frequency(query.term, results[j].doc_id)
                  => results[i].score >= results[j].score
    /\ \A t1, t2 \in DOMAIN index :
          \A i \in DOMAIN index[t1].postings, j \in DOMAIN index[t2].postings :
              (/\ index[t1].postings[i].term_frequency = index[t2].postings[j].term_frequency
               /\ index[t1].document_frequency < index[t2].document_frequency)
              => calculate_tfidf(index[t1].postings[i].term_frequency,
                                 index[t1].document_frequency, total_documents)
                   > calculate_tfidf(index[t2].postings[j].term_frequency,
                                     index[t2].document_frequency, total_documents)

\* A document without retained tokens is stored, the term query has two
\* results with different term frequencies and different positive scores,
\* and two terms with the same term frequency differ in document frequency.
C27_Witness ==
    /\ query.kind = "Term" /\ ~panicked
    /\ \E d \in DOMAIN documents : RetainedTerms(documents[d]) = {}
    /\ Len(results) = 2
    /\ results[1].score > results[2].score /\ results[2].score > 0
    /\ get_term_frequency(query.term, results[1].doc_id)
          > get_term_frequency(query.term, results[2].doc_id)
    /\ \E t1, t2 \in DOMAIN index :
          /\ index[t1].document_frequency < index[t2].document_frequency
          /\ \E i \in DOMAIN index[t1].postings, j \in DOMAIN index[t2].postings :
                index[t1].postings[i].term_frequency = index[t2].postings[j].term_frequency


C29_PostingsAscending ==
    /\ \A t \in DOMAIN index :
          LET postings == index[t].postings IN
          /\ \A i, j \in DOMAIN postings :
                i # j => postings[i].doc_id # postings[j].doc_id
          /\ \A i \in 1..(Len(postings) - 1) :
                postings[i].doc_id < postings[i + 1].doc_id
    /\ \A t \in ProbeTerms :
          LET ids == index_search(t) IN
          \A i, j \in DOMAIN ids : i < j => ids[i] < ids[j]

\* The raw search of a term returns the first and the third document: the
\* second document did not have the term.
C29_Witness ==
    \E t \in ProbeTerms : index_search(t) = <<0, 2>>

\* C30: every key of the term map has a posting list that is not empty,
\* with 1 <= document_frequency <= total_documents; every posting has
\* term_frequency >= 1 and the id of a stored document; so the quotient
\* total_documents / document_frequency is defined and at least 1 and every
\* score is a finite number that is not negative.
C30_PostingListsWellFormed ==
    /\ \A t \in DOMAIN index :
          /\ index[t].postings # <<>>
          /\ index[t].document_frequency >= 1
          /\ index[t].document_frequency <= total_documents
          /\ \A i \in DOMAIN index[t].postings :
                /\ index[t].postings[i].term_frequency >= 1
                /\ index[t].postings[i].doc_id \in DOMAIN documents
                /\ index[t].postings[i].term_frequency \in DOMAIN Log10Table
                /\ calculate_tfidf(index[t].postings[i].term_frequency,
                                   index[t].document_frequency,
                                   total_documents) \in Nat
    /\ (query.kind = "Term" /\ ~panicked) =>
          \A i \in DOMAIN results : results[i].score \in Nat

\* One term is in every stored document, another in one of them only, and
\* a term query returned a result.
C30_Witness ==
    /\ total_documents >= 2
    /\ \E t \in DOMAIN index : index[t].document_frequency = total_documents
    /\ \E t \in DOMAIN index : index[t].document_frequency = 1
    /\ query.kind = "Term" /\ ~panicked /\ results # <<>>

=============================================================================
